---- MODULE Spec2Model ----
(***************************************************************************)
(* Model of forage-quantium's two scripts:                                 *)
(*   task_two_clean_data.py   (Ingestion: process_sales_data)              *)
(*   task_three_visualize.py  (Presentation: load_and_clean_data and the   *)
(*                             module-level groupby)                       *)
(*                                                                         *)
(* Text is modelled as a sequence of one-character strings, so slicing,    *)
(* parsing and formatting are computed character by character.  A missing  *)
(* CSV cell (pandas NaN) is the cell <<"NaN">>.  Numbers pandas holds as   *)
(* float64 are modelled exactly, in thousandths ("mills"); every price     *)
(* cell of the model has at most three decimals and is chosen so that the  *)
(* float64 product price*100 truncates to the same integer as the exact    *)
(* product.                                                                *)
(***************************************************************************)
EXTENDS Integers, Sequences, FiniteSets

VARIABLES
    default_symbol,      \* config['default_currency_symbol']
    dir_exists,          \* os.path.exists(data_dir)
    csv_files,           \* glob.glob(...): the files, in enumeration order
    artifact,            \* the output file <product>_sales_summary.csv on disk
    pc,                  \* position in the pipeline
    idx,                 \* number of files of csv_files already iterated
    currency_symbol,     \* process_sales_data's currency_symbol ("None" = None)
    all_filtered_data,   \* process_sales_data's all_filtered_data (list of frames)
    slices,              \* slice_start_index of each file that was sliced (step 3)
    outcomes,            \* what each iterated file ended as
    raised,              \* an exception escaped process_sales_data
    pres_df,             \* Presentation: df returned by load_and_clean_data
    pres_symbol,         \* Presentation: currency_symbol returned with it
    pres_slice,          \* Presentation: slice_start_index it used
    daily_sales,         \* Presentation: the grouped table
    pres_crashed,        \* Presentation: an exception escaped the module
    probe                \* inputs and results of the pure-function specifications

vars == <<default_symbol, dir_exists, csv_files, artifact, pc, idx,
          currency_symbol, all_filtered_data, slices, outcomes, raised,
          pres_df, pres_symbol, pres_slice, daily_sales, pres_crashed, probe>>

(***************************************************************************)
(* Bounds of the model.                                                    *)
(***************************************************************************)
\* Files in the directory listing.
MaxFiles == 2
\* Largest quantity of a probed row.
MaxQty == 3
\* Cells in a probed column.
MaxCells == 2

(***************************************************************************)
(* Text and numbers.                                                       *)
(***************************************************************************)
NaNCell == <<"NaN">>

Digits == {"0", "1", "2", "3", "4", "5", "6", "7", "8", "9"}

DigitVal(c) ==
    CASE c = "0" -> 0 [] c = "1" -> 1 [] c = "2" -> 2 [] c = "3" -> 3
      [] c = "4" -> 4 [] c = "5" -> 5 [] c = "6" -> 6 [] c = "7" -> 7
      [] c = "8" -> 8 [] c = "9" -> 9

DigitChar(d) ==
    CASE d = 0 -> "0" [] d = 1 -> "1" [] d = 2 -> "2" [] d = 3 -> "3"
      [] d = 4 -> "4" [] d = 5 -> "5" [] d = 6 -> "6" [] d = 7 -> "7"
      [] d = 8 -> "8" [] d = 9 -> "9"

RECURSIVE ValueOf(_)
ValueOf(ds) ==
    IF ds = <<>> THEN 0
    ELSE ValueOf(SubSeq(ds, 1, Len(ds) - 1)) * 10 + DigitVal(ds[Len(ds)])

RECURSIVE DigitsOf(_)
DigitsOf(n) ==
    IF n < 10 THEN <<DigitChar(n)>>
    ELSE Append(DigitsOf(n \div 10), DigitChar(n % 10))

AllDigits(s) == \A i \in 1..Len(s) : s[i] \in Digits

\* A float64 (or NaN): v counts thousandths.
Num(m) == [nan |-> FALSE, v |-> m]
NaNNum == [nan |-> TRUE, v |-> 0]

Fillna0(x) == IF x.nan THEN 0 ELSE x.v

DotIndex(s) ==
    IF \E i \in 1..Len(s) : s[i] = "."
    THEN CHOOSE i \in 1..Len(s) : s[i] = "." /\ \A j \in 1..(i - 1) : s[j] # "."
    ELSE 0

\* The first three decimals of a fraction's digits, as thousandths.
Frac3(fp) ==
    LET padded == fp \o <<"0", "0", "0">>
    IN  ValueOf(SubSeq(padded, 1, 3))

\* pd.to_numeric(..., errors='coerce') on one string: an unsigned decimal
\* literal (digits with at most one point, at least one digit) is its value;
\* everything else, "nan" and the empty string included, is NaN.
ToNumeric(s) ==
    LET k  == DotIndex(s)
        ip == IF k = 0 THEN s ELSE SubSeq(s, 1, k - 1)
        fp == IF k = 0 THEN <<>> ELSE SubSeq(s, k + 1, Len(s))
    IN  IF AllDigits(ip) /\ AllDigits(fp) /\ Len(ip) + Len(fp) >= 1
        THEN Num(ValueOf(ip) * 1000 + Frac3(fp))
        ELSE NaNNum

\* str(x) of a float64 x >= 0: the shortest repr, "3.0", "0.5", "1.009".
ReprFloat(m) ==
    LET f  == m % 1000
        d3 == <<DigitChar(f \div 100), DigitChar((f \div 10) % 10), DigitChar(f % 10)>>
        fr == IF f % 100 = 0 THEN SubSeq(d3, 1, 1)
              ELSE IF f % 10 = 0 THEN SubSeq(d3, 1, 2) ELSE d3
    IN  DigitsOf(m \div 1000) \o <<".">> \o fr

\* Series.astype(str) on one value of a column.
AsTypeStr(x) ==
    IF x.kind = "nan" THEN <<"n", "a", "n">>
    ELSE IF x.kind = "float" THEN ReprFloat(x.v)
    ELSE x.s

\* Series.str.slice(start) on one string.
StrSlice(s, start) == SubSeq(s, start + 1, Len(s))

\* f"{x:.2f}" of x = cents / 100.0, cents >= 0.
Format2f(cents) ==
    DigitsOf(cents \div 100)
      \o <<".", DigitChar((cents \div 10) % 10), DigitChar(cents % 10)>>

(***************************************************************************)
(* CSV files and pandas columns.                                           *)
(***************************************************************************)
\* A value of a pandas column (or Python's None).
StrVal(s) == [kind |-> "str", v |-> 0, s |-> s]
FloatVal(m) == [kind |-> "float", v |-> m, s |-> <<>>]
NaNVal == [kind |-> "nan", v |-> 0, s |-> <<>>]
NoneVal == [kind |-> "none", v |-> 0, s |-> <<>>]

\* pd.read_csv's type inference for one text column: with every non-empty cell a
\* number the column is float64, otherwise it is object and keeps the cells' text;
\* an empty cell is NaN either way.  (Every numeric cell of the model carries a
\* decimal point, so no column is typed int64.)
ReadColumn(cells) ==
    LET numeric == \A i \in 1..Len(cells) :
                       cells[i] = NaNCell \/ ~ToNumeric(cells[i]).nan
    IN  [i \in 1..Len(cells) |->
            IF cells[i] = NaNCell THEN NaNVal
            ELSE IF numeric THEN FloatVal(ToNumeric(cells[i]).v)
            ELSE StrVal(cells[i])]

Columns == {"product", "price", "quantity", "date", "region"}

\* config.get('product_filter', 'pink morsel')
product_filter == "pink morsel"

(***************************************************************************)
(* Ingestion: one iteration of process_sales_data's loop over csv_files.   *)
(***************************************************************************)
\* Step 2, first branch (currency_symbol is None): the symbol and the slice index
\* from the first non-missing price; len() of a float raises TypeError.
DetectSymbol(first_price_string, dflt) ==
    IF first_price_string.kind = "float" /\ first_price_string.v # 0
    THEN [raises |-> TRUE, symbol |-> "None", slice |-> 0]
    ELSE IF first_price_string.kind = "str" /\ Len(first_price_string.s) > 0
    THEN [raises |-> FALSE, symbol |-> first_price_string.s[1], slice |-> 1]
    ELSE [raises |-> FALSE, symbol |-> dflt, slice |-> 0]

\* Step 2, second branch (a symbol is already set): the slice index for this file.
LaterSliceIndex(cs, dflt) == IF cs # dflt THEN 1 ELSE 0

\* Steps 3 and 4: the cleaned price string, to_numeric with coercion, fillna(0),
\* times 100, astype(int): astype truncates.
PriceCents(price, slice_start_index) ==
    LET price_clean_str == StrSlice(AsTypeStr(price), slice_start_index)
        price_numeric   == Fillna0(ToNumeric(price_clean_str))
    IN  (price_numeric * 100) \div 1000

\* Step 5: quantity.fillna(0).
QuantityOf(cell) == IF cell = NaNCell THEN 0 ELSE ValueOf(cell)

\* Step 5: sales_cents = price_cents * quantity.
SalesCents(price, slice_start_index, quantity) ==
    PriceCents(price, slice_start_index) * QuantityOf(quantity)

NoSlice == 0 - 1

\* The iteration ended without appending: `continue`, or an exception.
Skipped(outcome, cs, slice_start_index) ==
    [outcome |-> outcome, currency_symbol |-> cs, slice |-> slice_start_index,
     frame |-> <<>>]

\* A slip: the `if pink_morsel_df.empty: continue` guard is missing.
IsEmptyFrame_NoGuard(frame) == FALSE

\* pink_morsel_df.empty
IsEmptyFrame(frame) == frame = <<>>

\* The body of the for loop for one file, given the carried currency_symbol:
\* how the iteration ended, the currency_symbol it leaves, the slice index it
\* used and the frame it appended.  frame holds each row's sales in cents
\* (sales_numeric = cents / 100.0).
ProcessFile(file, cs, dflt) ==
    IF file.status = "empty" THEN Skipped("EmptyDataError", cs, NoSlice)
    ELSE IF file.status = "gone" THEN Skipped("FileNotFoundError", cs, NoSlice)
    ELSE IF "product" \notin file.columns THEN Skipped("KeyError", cs, NoSlice)
    ELSE
    LET allPrice == ReadColumn([i \in 1..Len(file.rows) |-> file.rows[i].price])
        df       == [i \in 1..Len(file.rows) |->
                        [row |-> file.rows[i], price |-> allPrice[i]]]
        pink_morsel_df == SelectSeq(df, LAMBDA r : r.row.product = product_filter)
    IN
    IF IsEmptyFrame(pink_morsel_df) THEN Skipped("nomatch", cs, NoSlice)
    ELSE IF "price" \notin file.columns THEN Skipped("KeyError", cs, NoSlice)
    ELSE
    LET nonNa == SelectSeq(pink_morsel_df, LAMBDA r : r.price.kind # "nan")
        first_price_string == IF nonNa = <<>> THEN NoneVal ELSE nonNa[1].price
        det   == IF cs = "None"
                 THEN DetectSymbol(first_price_string, dflt)
                 ELSE [raises |-> FALSE, symbol |-> cs,
                       slice |-> LaterSliceIndex(cs, dflt)]
    IN
    IF det.raises THEN Skipped("TypeError", cs, NoSlice)
    ELSE IF ~({"quantity", "date", "region"} \subseteq file.columns)
    THEN Skipped("KeyError", det.symbol, det.slice)
    ELSE [outcome |-> "appended",
          currency_symbol |-> det.symbol,
          slice |-> det.slice,
          frame |-> [k \in 1..Len(pink_morsel_df) |->
                       [sales  |-> SalesCents(pink_morsel_df[k].price, det.slice,
                                              pink_morsel_df[k].row.quantity),
                        date   |-> pink_morsel_df[k].row.date,
                        region |-> pink_morsel_df[k].row.region]]]

\* The except clauses of the loop: EmptyDataError, FileNotFoundError, Exception.
Handled(outcome) ==
    outcome \in {"EmptyDataError", "FileNotFoundError", "KeyError", "TypeError"}

\* pd.concat(all_filtered_data, ignore_index=True)
RECURSIVE Concat(_)
Concat(frames) ==
    IF frames = <<>> THEN <<>> ELSE frames[1] \o Concat(Tail(frames))

\* The formatting lambda and to_csv: the rows of the artifact.
FormatSales(cs, cents) == <<cs>> \o Format2f(cents)

ArtifactRows(cs, frame) ==
    [k \in 1..Len(frame) |->
        [sales |-> FormatSales(cs, frame[k].sales),
         date |-> frame[k].date, region |-> frame[k].region]]

NoArtifact == [exists |-> FALSE, rows |-> <<>>]
WrittenArtifact(rows) == [exists |-> TRUE, rows |-> rows]

\* A slip: the `if not all_filtered_data: return` guard is missing.
FinalArtifact_NoGuard(frames, cs, dflt, old) ==
    WrittenArtifact(ArtifactRows(IF cs = "None" THEN dflt ELSE cs, Concat(frames)))

\* The end of process_sales_data: nothing is written without data; otherwise the
\* concatenated frames are formatted and written over the artifact.
FinalArtifact(frames, cs, dflt, old) ==
    IF frames = <<>> THEN old
    ELSE WrittenArtifact(ArtifactRows(IF cs = "None" THEN dflt ELSE cs, Concat(frames)))

\* The whole loop from file i on, as the fold of ProcessFile.
RECURSIVE RunLoop(_, _, _, _, _)
RunLoop(files, i, cs, frames, dflt) ==
    IF i > Len(files) THEN [currency_symbol |-> cs, frames |-> frames]
    ELSE LET r == ProcessFile(files[i], cs, dflt)
         IN  RunLoop(files, i + 1, r.currency_symbol,
                     IF r.outcome = "appended" THEN Append(frames, r.frame) ELSE frames,
                     dflt)

\* process_sales_data on a directory listing: the artifact it leaves on disk.
RunArtifact(files, dflt, old) ==
    LET r == RunLoop(files, 1, "None", <<>>, dflt)
    IN  FinalArtifact(r.frames, r.currency_symbol, dflt, old)

(***************************************************************************)
(* Presentation: load_and_clean_data and the module-level aggregation.     *)
(***************************************************************************)
DEFAULT_CURRENCY_SYMBOL == "$"

\* first_sales_value: astype(str) runs before dropna, so the first row's text is
\* taken even when that row is NaN; None only with no non-missing value at all.
FirstSalesValue(sales) ==
    IF \A i \in 1..Len(sales) : sales[i].kind = "nan" THEN NoneVal
    ELSE StrVal(AsTypeStr(sales[1]))

\* The symbol and slice index Presentation takes from first_sales_value.
PresDetectSymbol(first_sales_value) ==
    IF first_sales_value.kind = "str" /\ Len(first_sales_value.s) > 1
    THEN [symbol |-> first_sales_value.s[1], slice |-> 1]
    ELSE [symbol |-> DEFAULT_CURRENCY_SYMBOL, slice |-> 0]

\* Sales_Value of one row, in thousandths.
SalesValue(sale, slice_start_index) ==
    Fillna0(ToNumeric(StrSlice(AsTypeStr(sale), slice_start_index)))

\* load_and_clean_data: the frame (with or without a Sales_Value column) and the
\* symbol.  pd.to_datetime is the identity on the model's dates.
LoadAndCleanData(art) ==
    IF ~art.exists \/ art.rows = <<>>
    THEN [has_sales_value |-> FALSE, rows |-> <<>>,
          symbol |-> DEFAULT_CURRENCY_SYMBOL, slice |-> NoSlice]
    ELSE LET sales == ReadColumn([i \in 1..Len(art.rows) |-> art.rows[i].sales])
             det   == PresDetectSymbol(FirstSalesValue(sales))
         IN  [has_sales_value |-> TRUE,
              rows |-> [i \in 1..Len(art.rows) |->
                          [Sales_Value |-> SalesValue(sales[i], det.slice),
                           date |-> art.rows[i].date,
                           region |-> art.rows[i].region]],
              symbol |-> det.symbol, slice |-> det.slice]

RECURSIVE SumSales(_)
SumSales(rows) ==
    IF rows = <<>> THEN 0 ELSE rows[1].Sales_Value + SumSales(Tail(rows))

\* df.groupby(['date', 'region'])['Sales_Value'].sum().reset_index()
GroupBy(rows) ==
    {[date |-> rows[i].date, region |-> rows[i].region,
      total |-> SumSales(SelectSeq(rows, LAMBDA r :
                    r.date = rows[i].date /\ r.region = rows[i].region))] :
        i \in 1..Len(rows)}

(***************************************************************************)
(* Inputs: rows, files and directory listings.                             *)
(***************************************************************************)
Row(product, price, quantity, date, region) ==
    [product |-> product, price |-> price, quantity |-> quantity,
     date |-> date, region |-> region]

\* Rows of the input files: the three rows of the end-to-end scenario, a row with
\* another symbol, one without a symbol, one that is only the symbol, and one
\* with the price and the quantity missing.
Morsel3 == Row("pink morsel", <<"$", "3", ".", "0", "0">>, <<"5">>, "2020-01-01", "north")
Morsel2 == Row("pink morsel", <<"$", "2", ".", "0", "0">>, <<"3">>, "2020-01-01", "north")
OtherCase == Row("Pink Morsel", <<"$", "5", ".", "0", "0">>, <<"2">>, "2020-01-01", "north")
HashRow == Row("pink morsel", <<"#", "1", ".", "5", "0">>, <<"2">>, "2020-01-02", "north")
BareRow == Row("pink morsel", <<"0", ".", "5", "0">>, <<"2">>, "2020-01-01", "south")
SymbolOnly == Row("pink morsel", <<"$">>, <<"4">>, "2020-01-02", "south")
MissingRow == Row("pink morsel", NaNCell, NaNCell, "2020-01-02", "south")

RowPool == {Morsel3, Morsel2, OtherCase, HashRow, BareRow, SymbolOnly, MissingRow}

SeqsUpTo(S, n) == UNION {[1..k -> S] : k \in 0..n}

CsvFile(columns, rows) == [status |-> "ok", columns |-> columns, rows |-> rows]
EmptyFile == [status |-> "empty", columns |-> {}, rows |-> <<>>]
GoneFile == [status |-> "gone", columns |-> {}, rows |-> <<>>]
HeaderOnly == CsvFile(Columns, <<>>)

\* The files a directory may hold: every one-row file, some files of several
\* rows, one-row files lacking a column, a file with only the header, a zero-byte
\* file and a file deleted between glob and read_csv.
FilePool ==
    {CsvFile(Columns, <<r>>) : r \in RowPool}
      \cup {CsvFile(Columns, <<Morsel3, Morsel2, OtherCase>>),
            CsvFile(Columns, <<BareRow, Morsel3>>),
            CsvFile(Columns, <<MissingRow, Morsel2>>)}
      \cup {CsvFile(Columns \ {"quantity"}, <<r>>) : r \in {Morsel3, HashRow}}
      \cup {CsvFile(Columns \ {"price"}, <<Morsel3>>)}
      \cup {HeaderOnly, EmptyFile, GoneFile}

Dirs == SeqsUpTo(FilePool, MaxFiles)

DefaultSymbols == {"$", "#"}

OldArtifact ==
    WrittenArtifact(<<[sales |-> <<"$", "9", ".", "9", "9">>,
                       date |-> "2019-12-31", region |-> "east"]>>)

InitialArtifacts == {NoArtifact, WrittenArtifact(<<>>), OldArtifact}

NoProbe == [kind |-> "none"]

(***************************************************************************)
(* The pipeline: Ingestion, then Presentation.                             *)
(***************************************************************************)
PipelineInit ==
    /\ default_symbol \in DefaultSymbols
    /\ dir_exists \in BOOLEAN
    /\ csv_files \in (IF dir_exists THEN Dirs ELSE {<<>>})
    /\ artifact \in InitialArtifacts
    /\ pc = "start"
    /\ idx = 0
    /\ currency_symbol = "None"
    /\ all_filtered_data = <<>>
    /\ slices = <<>>
    /\ outcomes = <<>>
    /\ raised = FALSE
    /\ pres_df = [has_sales_value |-> FALSE, rows |-> <<>>]
    /\ pres_symbol = "None"
    /\ pres_slice = NoSlice
    /\ daily_sales = {}
    /\ pres_crashed = FALSE

Init == PipelineInit /\ probe = NoProbe

presVars == <<pres_df, pres_symbol, pres_slice, daily_sales, pres_crashed>>
inputVars == <<default_symbol, dir_exists, csv_files>>
loopVars == <<idx, currency_symbol, all_filtered_data, slices, outcomes, raised>>

\* glob and the early return without CSV files.
Glob ==
    /\ pc = "start"
    /\ pc' = IF csv_files = <<>> THEN "returned" ELSE "loop"
    /\ UNCHANGED <<inputVars, artifact, loopVars, presVars, probe>>

\* One iteration of the for loop.
Iterate ==
    /\ pc = "loop"
    /\ idx < Len(csv_files)
    /\ LET r == ProcessFile(csv_files[idx + 1], currency_symbol, default_symbol)
       IN  /\ idx' = idx + 1
           /\ outcomes' = Append(outcomes, r.outcome)
           /\ IF r.outcome = "appended" \/ Handled(r.outcome) \/ r.outcome = "nomatch"
              THEN /\ currency_symbol' = r.currency_symbol
                   /\ all_filtered_data' =
                         IF r.outcome = "appended"
                         THEN Append(all_filtered_data, r.frame)
                         ELSE all_filtered_data
                   /\ slices' = IF r.slice # NoSlice
                                THEN Append(slices, r.slice) ELSE slices
                   /\ raised' = raised
                   /\ pc' = pc
              ELSE /\ raised' = TRUE
                   /\ pc' = "returned"
                   /\ UNCHANGED <<currency_symbol, all_filtered_data, slices>>
    /\ UNCHANGED <<inputVars, artifact, presVars, probe>>

\* After the loop: return without data, or format and write the artifact.
Finish ==
    /\ pc = "loop"
    /\ idx = Len(csv_files)
    /\ artifact' = FinalArtifact(all_filtered_data, currency_symbol,
                                 default_symbol, artifact)
    /\ pc' = "returned"
    /\ UNCHANGED <<inputVars, loopVars, presVars, probe>>

\* Presentation's module load: df, currency_symbol = load_and_clean_data(DATA_FILE).
Load ==
    /\ pc = "returned"
    /\ LET r == LoadAndCleanData(artifact)
       IN  /\ pres_df' = [has_sales_value |-> r.has_sales_value, rows |-> r.rows]
           /\ pres_symbol' = r.symbol
           /\ pres_slice' = r.slice
    /\ pc' = "loaded"
    /\ UNCHANGED <<inputVars, artifact, loopVars, daily_sales, pres_crashed, probe>>

\* daily_sales = df.groupby(['date', 'region'])['Sales_Value'].sum(): selecting a
\* column the frame does not have raises KeyError.
Aggregate ==
    /\ pc = "loaded"
    /\ IF pres_df.has_sales_value
       THEN /\ daily_sales' = GroupBy(pres_df.rows)
            /\ pres_crashed' = FALSE
       ELSE /\ daily_sales' = daily_sales
            /\ pres_crashed' = TRUE
    /\ pc' = "done"
    /\ UNCHANGED <<inputVars, artifact, loopVars, pres_df, pres_symbol, pres_slice, probe>>

Next == Glob \/ Iterate \/ Finish \/ Load \/ Aggregate

Spec == Init /\ [][Next]_vars

(***************************************************************************)
(* The row arithmetic on its own: one price and one quantity.              *)
(***************************************************************************)
\* Fraction digits for which price * 100 in float64 truncates as the exact
\* product does.
FracDigits == {"0", "5", "9"}
UnitDigits == {"0", "1", "3"}

\* "$d", "$d.f", "$d.ff", "$d.fff"
ProbePrices ==
    {<<"$", d>> : d \in UnitDigits}
      \cup {<<"$", d, ".">> \o f : d \in UnitDigits,
                                   f \in UNION {[1..k -> FracDigits] : k \in 1..3}}

IdlePipeline ==
    /\ default_symbol = "$"
    /\ dir_exists = FALSE
    /\ csv_files = <<>>
    /\ artifact = NoArtifact
    /\ pc = "idle"
    /\ idx = 0
    /\ currency_symbol = "None"
    /\ all_filtered_data = <<>>
    /\ slices = <<>>
    /\ outcomes = <<>>
    /\ raised = FALSE
    /\ pres_df = [has_sales_value |-> FALSE, rows |-> <<>>]
    /\ pres_symbol = "None"
    /\ pres_slice = NoSlice
    /\ daily_sales = {}
    /\ pres_crashed = FALSE

pipelineVars == <<inputVars, artifact, pc, loopVars, presVars>>

CentsInit ==
    /\ IdlePipeline
    /\ \E p \in ProbePrices, q \in 0..MaxQty :
          probe = [kind |-> "cents", price |-> p, quantity |-> q,
                   done |-> FALSE, sales_cents |-> 0]

\* Steps 3 to 5 on the probed row, the symbol sliced off.
ComputeCents ==
    /\ probe.kind = "cents"
    /\ ~probe.done
    /\ probe' = [probe EXCEPT
                    !.done = TRUE,
                    !.sales_cents = SalesCents(StrVal(probe.price), 1,
                                               DigitsOf(probe.quantity))]
    /\ UNCHANGED pipelineVars

SpecCents == CentsInit /\ [][ComputeCents]_vars

(***************************************************************************)
(* The two symbol detections on the same column.                           *)
(***************************************************************************)
ProbeCells ==
    {NaNCell, <<"$">>, <<"#">>, <<"$", "5">>, <<"#", "1", ".", "5">>, <<"1", ".", "5">>}

ProbeColumns == UNION {[1..k -> ProbeCells] : k \in 1..MaxCells}

Pending == [done |-> FALSE, raises |-> FALSE, symbol |-> "None", slice |-> NoSlice]

DetectInit ==
    /\ IdlePipeline
    /\ \E c \in ProbeColumns, d \in DefaultSymbols :
          probe = [kind |-> "detect", column |-> c, dflt |-> d,
                   ingestion |-> Pending, presentation |-> Pending]

\* Ingestion's detection (lines 80 to 89) on the column as read_csv types it.
IngestionDetects(cells, dflt) ==
    LET nonNa == SelectSeq(ReadColumn(cells), LAMBDA x : x.kind # "nan")
        d     == DetectSymbol(IF nonNa = <<>> THEN NoneVal ELSE nonNa[1], dflt)
    IN  [done |-> TRUE, raises |-> d.raises, symbol |-> d.symbol,
         slice |-> IF d.raises THEN NoSlice ELSE d.slice]

\* Presentation's detection (lines 29 to 37) on the same column.
PresentationDetects(cells) ==
    LET d == PresDetectSymbol(FirstSalesValue(ReadColumn(cells)))
    IN  [done |-> TRUE, raises |-> FALSE, symbol |-> d.symbol, slice |-> d.slice]

ProbeIngestion ==
    /\ probe.kind = "detect"
    /\ ~probe.ingestion.done
    /\ probe' = [probe EXCEPT !.ingestion = IngestionDetects(probe.column, probe.dflt)]
    /\ UNCHANGED pipelineVars

ProbePresentation ==
    /\ probe.kind = "detect"
    /\ ~probe.presentation.done
    /\ probe' = [probe EXCEPT !.presentation = PresentationDetects(probe.column)]
    /\ UNCHANGED pipelineVars

DetectNext == ProbeIngestion \/ ProbePresentation

SpecDetect == DetectInit /\ [][DetectNext]_vars

(***************************************************************************)
(* Properties.                                                             *)
(***************************************************************************)
Range(s) == {s[i] : i \in DOMAIN s}

\* C1: within one run the strip rule is decided once and applied uniformly:
\* every file that is sliced is sliced with the index the first sliced file
\* used (1 after a detected symbol, 0 after the fallback), whatever the detected
\* and the configured default symbols are.
C1_StripRuleUniform ==
    \A i \in DOMAIN slices : slices[i] = slices[1]

\* C2: with the artifact missing or without data rows, loading and aggregating
\* end without an exception, with an empty aggregated table and the default
\* currency symbol.
C2_EmptyArtifactDegrades ==
    (pc = "done" /\ (~artifact.exists \/ artifact.rows = <<>>))
        => /\ ~pres_crashed
           /\ daily_sales = {}
           /\ pres_symbol = DEFAULT_CURRENCY_SYMBOL

\* The price of the probed row in thousandths, and a nearest integer to x / 10.
ProbeMills == ToNumeric(StrSlice(probe.price, 1)).v
IsNearest(c, x) == 10 * c - x <= 5 /\ x - 10 * c <= 5

\* C3: for a valid decimal price p (decimals beyond the second included) and a
\* quantity q >= 0, the row's total cents are round(p * 100) * q for a
\* round-to-nearest rule: the cents are q times an integer nearest to p * 100.
C3_CentsRoundToNearest ==
    (probe.kind = "cents" /\ probe.done)
        => \E c \in 0..1000 :
              /\ IsNearest(c, ProbeMills)
              /\ probe.sales_cents = c * probe.quantity

\* The first non-missing value of the probed column, if any.
ProbeNonEmpty == SelectSeq(probe.column, LAMBDA c : c # NaNCell)

\* C4: Presentation detects as Ingestion does: with a first non-empty value of
\* positive length (a lone symbol included) both take its first character and
\* slice one character; otherwise both take their default symbol and slice none.
C4_SameDetection ==
    (probe.kind = "detect" /\ probe.ingestion.done /\ probe.presentation.done)
        => IF ProbeNonEmpty # <<>> /\ Len(ProbeNonEmpty[1]) > 0
           THEN /\ ~probe.ingestion.raises
                /\ probe.ingestion.symbol = ProbeNonEmpty[1][1]
                /\ probe.ingestion.slice = 1
                /\ probe.presentation.symbol = ProbeNonEmpty[1][1]
                /\ probe.presentation.slice = 1
           ELSE /\ probe.ingestion.symbol = probe.dflt
                /\ probe.ingestion.slice = 0
                /\ probe.presentation.symbol = DEFAULT_CURRENCY_SYMBOL
                /\ probe.presentation.slice = 0

\* The run's loop has ended and process_sales_data has returned.
RunEnded == pc = "returned" /\ idx = Len(csv_files)

WellFormed(file) == file.status = "ok" /\ file.columns = Columns
MatchingRows(file) == SelectSeq(file.rows, LAMBDA r : r.product = product_filter)

RECURSIVE QualifyingRows(_)
QualifyingRows(files) ==
    IF files = <<>> THEN <<>>
    ELSE (IF WellFormed(files[1]) THEN MatchingRows(files[1]) ELSE <<>>)
           \o QualifyingRows(Tail(files))

\* A price that does not parse once the symbol is sliced off.
Unparseable(price) == price = NaNCell \/ ToNumeric(StrSlice(price, 1)).nan

\* C5: a written artifact holds exactly one row for each row of the directory's
\* (well-formed) CSV files whose product equals the filter, in order, and none
\* for another product; a matching row with an unparseable price is kept, with a
\* total of zero.
C5_OneRowPerMatchingRow ==
    (RunEnded /\ all_filtered_data # <<>>)
        => LET expected == QualifyingRows(csv_files)
           IN  /\ Len(artifact.rows) = Len(expected)
               /\ \A k \in 1..Len(expected) :
                     k <= Len(artifact.rows) =>
                        /\ artifact.rows[k].date = expected[k].date
                        /\ artifact.rows[k].region = expected[k].region
                        /\ Unparseable(expected[k].price) =>
                              StrSlice(artifact.rows[k].sales, 1) = <<"0", ".", "0", "0">>

\* The cents Ingestion serialized for one (date, region) pair.
RECURSIVE SumCents(_)
SumCents(frame) ==
    IF frame = <<>> THEN 0 ELSE frame[1].sales + SumCents(Tail(frame))

SerializedPoints(frame) ==
    {[date |-> frame[i].date, region |-> frame[i].region,
      total |-> 10 * SumCents(SelectSeq(frame, LAMBDA r :
                    r.date = frame[i].date /\ r.region = frame[i].region))] :
        i \in 1..Len(frame)}

\* C6: for an artifact Ingestion wrote (the symbol is one character), Presentation
\* yields one point per distinct (date, region) pair, whose value is the sum of
\* the totals (cents / 100) Ingestion serialized for that pair.
C6_RoundTripLossless ==
    (pc = "done" /\ all_filtered_data # <<>>)
        => /\ ~pres_crashed
           /\ daily_sales = SerializedPoints(Concat(all_filtered_data))

IsEmptyFile(file) == file.status = "empty" \/ (WellFormed(file) /\ file.rows = <<>>)
IsValidFile(file) == WellFormed(file) /\ MatchingRows(file) # <<>>

\* The directory holds one valid file and otherwise only empty files (at least one).
OneValidRestEmpty ==
    /\ Len(csv_files) >= 2
    /\ \E v \in DOMAIN csv_files :
          /\ IsValidFile(csv_files[v])
          /\ \A i \in DOMAIN csv_files \ {v} : IsEmptyFile(csv_files[i])

TheValidFile == csv_files[CHOOSE v \in DOMAIN csv_files : IsValidFile(csv_files[v])]

\* C7: a run over one valid file and one empty file, in either order, ends with
\* the frames, the symbol and the artifact of a run over the valid file alone.
C7_EmptyFileChangesNothing ==
    (RunEnded /\ OneValidRestEmpty)
        => LET alone == RunLoop(<<TheValidFile>>, 1, "None", <<>>, default_symbol)
           IN  /\ all_filtered_data = alone.frames
               /\ currency_symbol = alone.currency_symbol
               /\ artifact = FinalArtifact(alone.frames, alone.currency_symbol,
                                           default_symbol, artifact)

\* C7's case: the empty file came first and the valid file's rows were written.
C7_Witness ==
    /\ RunEnded
    /\ OneValidRestEmpty
    /\ IsEmptyFile(csv_files[1])
    /\ artifact.exists /\ artifact.rows # <<>> /\ artifact # OldArtifact

NoRowQualified(outs) == \A i \in DOMAIN outs : outs[i] # "appended"

\* C8: when no row of any file qualifies, process_sales_data returns without an
\* exception and leaves the artifact on disk as it was.
C8_NoDataNoWrite ==
    [][(pc # "returned" /\ pc' = "returned" /\ NoRowQualified(outcomes'))
          => (artifact' = artifact /\ ~raised')]_vars

\* C8's case: files were read, none qualified, and the old artifact is still there.
C8_Witness ==
    /\ RunEnded
    /\ "nomatch" \in Range(outcomes)
    /\ NoRowQualified(outcomes)
    /\ artifact = OldArtifact

\* The files of the listing that appended rows.
Contributing ==
    LET keep == {i \in DOMAIN csv_files : outcomes[i] = "appended"}
        RECURSIVE Pick(_)
        Pick(i) == IF i > Len(csv_files) THEN <<>>
                   ELSE (IF i \in keep THEN <<csv_files[i]>> ELSE <<>>) \o Pick(i + 1)
    IN  Pick(1)

\* C9: a file that contributes no rows leaves no trace: the run ends with the
\* frames and the artifact of a run over the contributing files alone.
C9_SkippedFileLeavesNoTrace ==
    (RunEnded /\ csv_files # <<>>)
        => LET alone == RunLoop(Contributing, 1, "None", <<>>, default_symbol)
           IN  /\ all_filtered_data = alone.frames
               /\ artifact = FinalArtifact(alone.frames, alone.currency_symbol,
                                           default_symbol, artifact)

BagOf(s) == [x \in Range(s) |-> Cardinality({i \in DOMAIN s : s[i] = x})]

Reorderings(s) ==
    {[i \in DOMAIN s |-> s[f[i]]] :
        f \in {g \in [DOMAIN s -> DOMAIN s] : \A a, b \in DOMAIN s : a # b => g[a] # g[b]}}

\* Every price of every file starts with the same symbol and none is missing.
SameSymbolEverywhere ==
    \E c \in {"$", "#"} :
        \A i \in DOMAIN csv_files : \A k \in DOMAIN csv_files[i].rows :
            LET price == csv_files[i].rows[k].price
            IN  price # NaNCell /\ price[1] = c

\* C10: with the same one-character symbol on every price, the multiset of the
\* artifact's rows does not depend on the order in which the files are listed.
C10_OrderIndependent ==
    (RunEnded /\ SameSymbolEverywhere /\ all_filtered_data # <<>>)
        => \A other \in Reorderings(csv_files) :
              BagOf(RunArtifact(other, default_symbol, NoArtifact).rows)
                 = BagOf(artifact.rows)

====
